---- MODULE Spec2Model ----
(***************************************************************************)
(* The New Yorker digest script (src/script.py): the article store kept in *)
(* article_data.json, one run of main() per process, and the table of      *)
(* contents of the digest EPUB.                                            *)
(*                                                                         *)
(* An article record is [url, title, date]; date is a day number.  The     *)
(* remaining fields of a record (author, content, image_data) are carried  *)
(* along unchanged by every step and take no part in any decision.         *)
(***************************************************************************)
EXTENDS Integers, Sequences, FiniteSets, TLC

\* ---- bounds of the model ----
MaxDay == 8            \* the calendar runs over days 0..MaxDay
MaxRunDays == 1        \* midnights one run of main() may span

\* ---- input domains ----
Urls == {"a", "b"}
Titles == {"old", "new"}
PubOffsets == {0, 1, 8}    \* age in days of the <time datetime> of a page

\* ---- program constants ----
RETENTION_DAYS == 7

VARIABLES
    clock,                  \* datetime.today().date()
    site,                   \* the <h1> each article page currently carries
    file,                   \* DATA_FILE: [kind, articles]
    pc,                     \* position of the process in main()
    err,                    \* the exception that ended the process
    all_articles,           \* main: all_articles
    links,                  \* main: links
    idx,                    \* main: position of the for loop in links
    existing_urls,          \* main: existing_urls
    today_articles,         \* module global
    week_articles,          \* module global
    cleaned_articles,       \* main: cleaned_articles
    todays_articles_final,  \* main: todays_articles_final
    weeks_articles_final,   \* main: weeks_articles_final
    toc,                    \* create_combined_epub: book.toc
    refDate,                \* `today` of organize_articles in this run
    startDay,               \* the day this process started
    fileAtStart,            \* DATA_FILE as it was when this process started
    fetched,                \* download_article calls of this run, in order
    rerun,                  \* this process repeats the previous run's inputs
    first                   \* what the repeated run saved and compiled

vars == <<clock, site, file, pc, err, all_articles, links, idx, existing_urls,
          today_articles, week_articles, cleaned_articles,
          todays_articles_final, weeks_articles_final, toc, refDate, startDay,
          fileAtStart, fetched, rerun, first>>

\* ---- helpers ----
Range(s) == {s[i] : i \in 1..Len(s)}

UrlsOf(s) == {s[i].url : i \in 1..Len(s)}

NoDupUrls(s) == \A i, j \in 1..Len(s) : s[i].url = s[j].url => i = j

Prefixes(s) == {SubSeq(s, 1, k) : k \in 0..Len(s)}

Ended == {"done", "failed", "killed"}

Running == {"load", "loaded", "loop", "merged", "bucketed", "saving", "persisted"}

NoFile == [kind |-> "absent", articles |-> <<>>]

NoFirst ==
    [set |-> FALSE, loaded |-> <<>>, store |-> <<>>, todays |-> <<>>,
     weeks |-> <<>>]

\* list(all_links): the members of a set, each once, in some order
RECURSIVE Perms(_)
Perms(S) ==
    IF S = {} THEN {<<>>}
    ELSE UNION {{<<x>> \o p : p \in Perms(S \ {x})} : x \in S}

LinkListsDup == UNION {[1..n -> Urls] : n \in 0..Cardinality(Urls)}

LinkLists == UNION {Perms(S) : S \in SUBSET Urls}

\* ---- load_articles ----
\* ok = FALSE: json.load raised
load_articles_failopen(f) ==
    IF f.kind = "ok" THEN [ok |-> TRUE, articles |-> f.articles]
    ELSE [ok |-> TRUE, articles |-> <<>>]

load_articles(f) ==
    IF f.kind = "absent" THEN [ok |-> TRUE, articles |-> <<>>]
    ELSE IF f.kind = "ok" THEN [ok |-> TRUE, articles |-> f.articles]
    ELSE [ok |-> FALSE, articles |-> <<>>]

\* ---- organize_articles ----
week_limit_short(today) == today - RETENTION_DAYS + 1

week_limit(today) == today - RETENTION_DAYS

IsToday_yesterday(art_date, today) == art_date >= today - 1

IsToday(art_date, today) == art_date = today

RECURSIVE organize_loop(_, _, _, _)
organize_loop(all, i, today, acc) ==
    IF i > Len(all) THEN acc
    ELSE LET article == all[i]
             art_date == article.date
         IN  IF art_date < week_limit(today)
             THEN organize_loop(all, i + 1, today, acc)
             ELSE IF IsToday(art_date, today)
             THEN organize_loop(all, i + 1, today,
                      [acc EXCEPT !.updated = Append(@, article),
                                  !.todays = Append(@, article)])
             ELSE organize_loop(all, i + 1, today,
                      [acc EXCEPT !.updated = Append(@, article),
                                  !.weeks = Append(@, article)])

organize_articles(all, today) ==
    organize_loop(all, 1, today,
                  [updated |-> <<>>, todays |-> <<>>, weeks |-> <<>>])

\* ---- main: the merge of lines 250-252 ----
NewRecords_weekfirst(todayL, weekL) == weekL \o todayL

NewRecords(todayL, weekL) == todayL \o weekL

RECURSIVE FilterNew(_, _)
FilterNew(new, all) ==
    IF new = <<>> THEN <<>>
    ELSE IF Head(new).url \notin UrlsOf(all)
         THEN <<Head(new)>> \o FilterNew(Tail(new), all)
         ELSE FilterNew(Tail(new), all)

Merge(all, todayL, weekL) == all \o FilterNew(NewRecords(todayL, weekL), all)

NeedsDownload_always(link, existing) == TRUE

NeedsDownload(link, existing) == link \notin existing

\* ---- create_combined_epub ----
Chapters(articles, section_title) ==
    [i \in 1..Len(articles) |->
        [title |-> articles[i].title, file_name |-> <<section_title, i>>,
         content |-> articles[i].url]]

add_section_always(t, articles, section_title) ==
    Append(t, [section |-> section_title,
               items |-> Chapters(articles, section_title)])

add_section(t, articles, section_title) ==
    IF Chapters(articles, section_title) # <<>>
    THEN Append(t, [section |-> section_title,
                    items |-> Chapters(articles, section_title)])
    ELSE t

BuildToc(todayL, weekL) ==
    add_section(add_section(<<>>, todayL, "Today's News"), weekL, "This Week")

\* ---- state ----
Init ==
    /\ clock = 0
    /\ site = [u \in Urls |-> "old"]
    /\ file = NoFile
    /\ pc = "init"
    /\ err = "none"
    /\ all_articles = <<>>
    /\ links = <<>>
    /\ idx = 1
    /\ existing_urls = {}
    /\ today_articles = <<>>
    /\ week_articles = <<>>
    /\ cleaned_articles = <<>>
    /\ todays_articles_final = <<>>
    /\ weeks_articles_final = <<>>
    /\ toc = <<>>
    /\ refDate = 0
    /\ startDay = 0
    /\ fileAtStart = NoFile
    /\ fetched = <<>>
    /\ rerun = FALSE
    /\ first = NoFirst

\* the memory of a fresh process
Fresh ==
    /\ err' = "none"
    /\ all_articles' = <<>>
    /\ idx' = 1
    /\ existing_urls' = {}
    /\ today_articles' = <<>>
    /\ week_articles' = <<>>
    /\ cleaned_articles' = <<>>
    /\ todays_articles_final' = <<>>
    /\ weeks_articles_final' = <<>>
    /\ toc' = <<>>
    /\ refDate' = clock
    /\ startDay' = clock
    /\ fileAtStart' = file

\* ---- the calendar and the web site ----
Tick ==
    /\ clock < MaxDay
    /\ ~rerun
    /\ \/ pc = "init"
       \/ pc \in Running /\ clock - startDay < MaxRunDays
    /\ clock' = clock + 1
    /\ UNCHANGED <<site, file, pc, err, all_articles, links, idx,
                   existing_urls, today_articles, week_articles,
                   cleaned_articles, todays_articles_final,
                   weeks_articles_final, toc, refDate, startDay, fileAtStart,
                   fetched, rerun, first>>

EditSite ==
    /\ pc = "init"
    /\ \E u \in Urls, t \in Titles :
          /\ site[u] # t
          /\ site' = [site EXCEPT ![u] = t]
    /\ UNCHANGED <<clock, file, pc, err, all_articles, links, idx,
                   existing_urls, today_articles, week_articles,
                   cleaned_articles, todays_articles_final,
                   weeks_articles_final, toc, refDate, startDay, fileAtStart,
                   fetched, rerun, first>>

\* ---- one process: python script.py ----
Start ==
    /\ pc = "init"
    /\ pc' = "load"
    /\ Fresh
    /\ links' = <<>>
    /\ fetched' = <<>>
    /\ rerun' = FALSE
    /\ first' = NoFirst
    /\ UNCHANGED <<clock, site, file>>

\* the script is started again on the same day, the listing pages and the
\* article pages being what they were
Rerun ==
    /\ pc = "done"
    /\ ~rerun
    /\ clock = refDate
    /\ pc' = "load"
    /\ Fresh
    /\ rerun' = TRUE
    /\ first' = [set |-> TRUE, loaded |-> fileAtStart.articles,
                 store |-> file.articles,
                 todays |-> todays_articles_final,
                 weeks |-> weeks_articles_final]
    /\ UNCHANGED <<clock, site, file, links, fetched>>

Load ==
    /\ pc = "load"
    /\ IF load_articles(file).ok
       THEN /\ all_articles' = load_articles(file).articles
            /\ pc' = "loaded"
            /\ err' = err
       ELSE /\ all_articles' = all_articles
            /\ pc' = "failed"
            /\ err' = "store"
    /\ UNCHANGED <<clock, site, file, links, idx, existing_urls,
                   today_articles, week_articles, cleaned_articles,
                   todays_articles_final, weeks_articles_final, toc, refDate,
                   startDay, fileAtStart, fetched, rerun, first>>

ExtractLinks ==
    /\ pc = "loaded"
    /\ \E l \in LinkLists :
          /\ rerun => l = links
          /\ links' = l
    /\ idx' = 1
    /\ existing_urls' = UrlsOf(all_articles)
    /\ pc' = "loop"
    /\ UNCHANGED <<clock, site, file, err, all_articles, today_articles,
                   week_articles, cleaned_articles, todays_articles_final,
                   weeks_articles_final, toc, refDate, startDay, fileAtStart,
                   fetched, rerun, first>>

ExtractLinksFail ==
    /\ pc = "loaded"
    /\ ~rerun
    /\ pc' = "failed"
    /\ err' = "links"
    /\ UNCHANGED <<clock, site, file, all_articles, links, idx, existing_urls,
                   today_articles, week_articles, cleaned_articles,
                   todays_articles_final, weeks_articles_final, toc, refDate,
                   startDay, fileAtStart, fetched, rerun, first>>

SkipLink ==
    /\ pc = "loop"
    /\ idx <= Len(links)
    /\ ~NeedsDownload(links[idx], existing_urls)
    /\ idx' = idx + 1
    /\ UNCHANGED <<clock, site, file, pc, err, all_articles, links,
                   existing_urls, today_articles, week_articles,
                   cleaned_articles, todays_articles_final,
                   weeks_articles_final, toc, refDate, startDay, fileAtStart,
                   fetched, rerun, first>>

\* what page.content() can hold for an article page
Pages(u) ==
    {[tag |-> FALSE, title |-> site[u], dkind |-> "none", d |-> 0]}
    \cup {[tag |-> TRUE, title |-> site[u], dkind |-> k, d |-> 0] :
             k \in {"none", "bad"}}
    \cup {[tag |-> TRUE, title |-> site[u], dkind |-> "iso", d |-> clock - o] :
             o \in PubOffsets}

\* what the first of two identical runs got when it fetched u
Seen(u) ==
    {fetched[i].page :
        i \in {j \in 1..Len(fetched) : fetched[j].url = u /\ ~fetched[j].run2}}

\* the pages of u a repeated run can get: the page the first run got, or,
\* when the first run found u in the store, a page that record came from
SamePages(u) ==
    IF Seen(u) # {} THEN Seen(u)
    ELSE {p \in Pages(u) :
            \A i \in 1..Len(first.loaded) :
               first.loaded[i].url = u =>
                  /\ p.tag
                  /\ \/ p.dkind = "none"
                     \/ p.dkind = "iso" /\ p.d = first.loaded[i].date}

pub_date(p) == IF p.dkind = "iso" THEN p.d ELSE clock

article_data(u, p) == [url |-> u, title |-> p.title, date |-> pub_date(p)]

\* download_article: page.goto raises
DownloadFetchFail ==
    /\ pc = "loop"
    /\ idx <= Len(links)
    /\ NeedsDownload(links[idx], existing_urls)
    /\ ~rerun
    /\ pc' = "failed"
    /\ err' = "fetch"
    /\ UNCHANGED <<clock, site, file, all_articles, links, idx, existing_urls,
                   today_articles, week_articles, cleaned_articles,
                   todays_articles_final, weeks_articles_final, toc, refDate,
                   startDay, fileAtStart, fetched, rerun, first>>

\* download_article: the page is fetched and parsed
Download ==
    /\ pc = "loop"
    /\ idx <= Len(links)
    /\ NeedsDownload(links[idx], existing_urls)
    /\ \E p \in (IF rerun THEN SamePages(links[idx]) ELSE Pages(links[idx])) :
          /\ fetched' = Append(fetched, [url |-> links[idx], page |-> p,
                                         day |-> clock, run2 |-> rerun])
          /\ IF ~p.tag \/ p.dkind = "bad"
             THEN UNCHANGED <<today_articles, week_articles>>
             ELSE IF pub_date(p) = clock
             THEN /\ today_articles' =
                        Append(today_articles, article_data(links[idx], p))
                  /\ UNCHANGED week_articles
             ELSE /\ week_articles' =
                        Append(week_articles, article_data(links[idx], p))
                  /\ UNCHANGED today_articles
    /\ idx' = idx + 1
    /\ UNCHANGED <<clock, site, file, pc, err, all_articles, links,
                   existing_urls, cleaned_articles, todays_articles_final,
                   weeks_articles_final, toc, refDate, startDay, fileAtStart,
                   rerun, first>>

MergeStep ==
    /\ pc = "loop"
    /\ idx > Len(links)
    /\ all_articles' = Merge(all_articles, today_articles, week_articles)
    /\ pc' = "merged"
    /\ UNCHANGED <<clock, site, file, err, links, idx, existing_urls,
                   today_articles, week_articles, cleaned_articles,
                   todays_articles_final, weeks_articles_final, toc, refDate,
                   startDay, fileAtStart, fetched, rerun, first>>

Organize ==
    /\ pc = "merged"
    /\ refDate' = clock
    /\ cleaned_articles' = organize_articles(all_articles, clock).updated
    /\ todays_articles_final' = organize_articles(all_articles, clock).todays
    /\ weeks_articles_final' = organize_articles(all_articles, clock).weeks
    /\ pc' = "bucketed"
    /\ UNCHANGED <<clock, site, file, err, all_articles, links, idx,
                   existing_urls, today_articles, week_articles, toc, startDay,
                   fileAtStart, fetched, rerun, first>>

\* save_articles: open(DATA_FILE, 'w') truncates the file
SaveOpen ==
    /\ pc = "bucketed"
    /\ file' = [kind |-> "partial", articles |-> <<>>]
    /\ pc' = "saving"
    /\ UNCHANGED <<clock, site, err, all_articles, links, idx, existing_urls,
                   today_articles, week_articles, cleaned_articles,
                   todays_articles_final, weeks_articles_final, toc, refDate,
                   startDay, fileAtStart, fetched, rerun, first>>

\* save_articles: json.dump has written everything and the file is closed
SaveWrite ==
    /\ pc = "saving"
    /\ file' = [kind |-> "ok", articles |-> cleaned_articles]
    /\ pc' = "persisted"
    /\ UNCHANGED <<clock, site, err, all_articles, links, idx, existing_urls,
                   today_articles, week_articles, cleaned_articles,
                   todays_articles_final, weeks_articles_final, toc, refDate,
                   startDay, fileAtStart, fetched, rerun, first>>

Epub ==
    /\ pc = "persisted"
    /\ toc' = BuildToc(todays_articles_final, weeks_articles_final)
    /\ pc' = "done"
    /\ UNCHANGED <<clock, site, file, err, all_articles, links, idx,
                   existing_urls, today_articles, week_articles,
                   cleaned_articles, todays_articles_final,
                   weeks_articles_final, refDate, startDay, fileAtStart,
                   fetched, rerun, first>>

\* the process is killed; what json.dump had flushed stays in the file
Kill ==
    /\ pc \in Running
    /\ pc' = "killed"
    /\ IF pc = "saving"
       THEN \E w \in Prefixes(cleaned_articles) :
               file' = [kind |-> "partial", articles |-> w]
       ELSE file' = file
    /\ all_articles' = <<>>
    /\ links' = <<>>
    /\ idx' = 1
    /\ existing_urls' = {}
    /\ today_articles' = <<>>
    /\ week_articles' = <<>>
    /\ todays_articles_final' = <<>>
    /\ weeks_articles_final' = <<>>
    /\ fetched' = <<>>
    /\ rerun' = FALSE
    /\ first' = NoFirst
    /\ UNCHANGED <<clock, site, err, cleaned_articles, toc, refDate, startDay,
                   fileAtStart>>

\* the process has ended and its memory is gone
Exit ==
    /\ pc \in Ended
    /\ pc' = "init"
    /\ err' = "none"
    /\ all_articles' = <<>>
    /\ links' = <<>>
    /\ idx' = 1
    /\ existing_urls' = {}
    /\ today_articles' = <<>>
    /\ week_articles' = <<>>
    /\ cleaned_articles' = <<>>
    /\ todays_articles_final' = <<>>
    /\ weeks_articles_final' = <<>>
    /\ toc' = <<>>
    /\ refDate' = 0
    /\ startDay' = 0
    /\ fileAtStart' = NoFile
    /\ fetched' = <<>>
    /\ rerun' = FALSE
    /\ first' = NoFirst
    /\ UNCHANGED <<clock, site, file>>

Next ==
    \/ Tick
    \/ EditSite
    \/ Start
    \/ Rerun
    \/ Load
    \/ ExtractLinks
    \/ ExtractLinksFail
    \/ SkipLink
    \/ DownloadFetchFail
    \/ Download
    \/ MergeStep
    \/ Organize
    \/ SaveOpen
    \/ SaveWrite
    \/ Epub
    \/ Kill
    \/ Exit

Spec == Init /\ [][Next]_vars

(***************************************************************************)
(* Properties                                                              *)
(***************************************************************************)
\* the records this run loaded from DATA_FILE
Loaded == fileAtStart.articles

PostOrganize == {"bucketed", "saving", "persisted", "done"}

InSeq(r, s) == \E i \in 1..Len(s) : s[i] = r

\* the download_article calls of this run that produced a record, in order
Succeeded(f) == f.run2 = rerun /\ f.page.tag /\ f.page.dkind # "bad"

RecordOf(f) ==
    [url |-> f.url, title |-> f.page.title,
     date |-> IF f.page.dkind = "iso" THEN f.page.d ELSE f.day]

DatedThatDay(f) == RecordOf(f).date = f.day

DatedEarlier(f) == RecordOf(f).date # f.day

Records(s) == [i \in 1..Len(s) |-> RecordOf(s[i])]

Extracted == SelectSeq(fetched, Succeeded)

\* C1: after any sequence of runs from an absent store, no two records of
\* the store file share a url.
C1_UniqueUrls == NoDupUrls(file.articles)

C1_Witness ==
    /\ pc = "done"
    /\ fileAtStart.kind = "ok"
    /\ UrlsOf(Loaded) \cap Range(links) # {}
    /\ Len(file.articles) = 2

\* C2: organize_articles keeps exactly the records dated refDate - 7 or
\* later, in order; a dropped record is in neither bucket; every record of
\* the store as saved is dated refDate - 7 or later.
C2_RetentionBoundary ==
    LET Keep(r) == r.date >= refDate - 7
    IN  /\ pc \in PostOrganize =>
            /\ cleaned_articles = SelectSeq(all_articles, Keep)
            /\ \A r \in Range(todays_articles_final)
                          \cup Range(weeks_articles_final) :
                  Keep(r) /\ InSeq(r, all_articles)
        /\ pc \in {"persisted", "done"} =>
            /\ file = [kind |-> "ok", articles |-> cleaned_articles]
            /\ \A r \in Range(file.articles) : Keep(r)

C2_Witness ==
    /\ pc = "persisted"
    /\ \E r \in Range(all_articles) :
          r.date = refDate - 7 /\ InSeq(r, file.articles)
    /\ \E r \in Range(all_articles) :
          /\ r.date = refDate - 8
          /\ ~InSeq(r, file.articles)
          /\ ~InSeq(r, todays_articles_final)
          /\ ~InSeq(r, weeks_articles_final)

C4_Supersession ==
    pc = "persisted" =>
        \A old \in Range(Loaded) :
            (old.url \in Range(links) /\ site[old.url] # old.title) =>
                /\ Cardinality({i \in 1..Len(file.articles) :
                                   file.articles[i].url = old.url}) = 1
                /\ \A r \in Range(file.articles) :
                      r.url = old.url => r.title = site[old.url]

\* C4 as amended: a discovered link already in the loaded store is not
\* downloaded again; the saved store holds at most one record for it, the
\* loaded one, which is there unless it is older than seven days.
C4_PersistedRecordKept ==
    pc = "persisted" =>
        \A old \in Range(Loaded) :
            old.url \in Range(links) =>
                /\ \A k \in 1..Len(fetched) :
                      fetched[k].run2 = rerun => fetched[k].url # old.url
                /\ Cardinality({i \in 1..Len(file.articles) :
                                   file.articles[i].url = old.url}) <= 1
                /\ \A r \in Range(file.articles) : r.url = old.url => r = old
                /\ old.date >= refDate - 7 => InSeq(old, file.articles)

C4_Witness ==
    /\ pc = "persisted"
    /\ \E old \in Range(Loaded) :
          /\ old.url \in Range(links)
          /\ site[old.url] # old.title
          /\ InSeq(old, file.articles)

\* C5: a second run with the same discovered links, the same pages and the
\* same reference date saves the store the first run saved and compiles the
\* same two buckets.
C5_Idempotent ==
    (pc = "done" /\ rerun) =>
        /\ file.articles = first.store
        /\ todays_articles_final = first.todays
        /\ weeks_articles_final = first.weeks

\* C6: after the process is killed, the store file holds what it held when
\* the process started or the complete sequence being saved.
C6_AtomicSave ==
    pc = "killed" =>
        \/ file = fileAtStart
        \/ file = [kind |-> "ok", articles |-> cleaned_articles]

\* C7: a run that finds an unparsable store file ends failed at load, with
\* nothing merged, organized, saved or compiled and the file as it was; a
\* run that finds no store file loads the empty sequence and does not fail
\* at load.
C7_CorruptStoreFatal ==
    /\ fileAtStart.kind = "partial" =>
          /\ pc \in {"load", "failed", "killed"}
          /\ pc = "failed" => err = "store"
          /\ file = fileAtStart
          /\ all_articles = <<>>
          /\ cleaned_articles = <<>>
          /\ toc = <<>>
    /\ (fileAtStart.kind = "absent" /\ pc \notin {"init", "load"}) =>
          /\ ~(pc = "failed" /\ err = "store")
          /\ pc = "loaded" => all_articles = <<>>

C7_Witness ==
    /\ pc = "failed"
    /\ err = "store"
    /\ fileAtStart.kind = "partial"
    /\ file = fileAtStart

\* C8 as stated: the merged sequence is the loaded records in stored order
\* followed by the records extracted in this run in extraction order.
C8_DiscoveryOrder ==
    pc = "merged" => all_articles = Loaded \o Records(Extracted)

\* C8 as amended: the merged sequence is the loaded records in stored
\* order, then the extracted records dated the day they were extracted, in
\* extraction order, then the other extracted records, in extraction order.
C8_MergeOrder ==
    pc = "merged" =>
        all_articles = Loaded \o Records(SelectSeq(Extracted, DatedThatDay))
                              \o Records(SelectSeq(Extracted, DatedEarlier))

\* an earlier-dated record was extracted before one dated that day
C8_Witness ==
    /\ pc = "merged"
    /\ Len(Extracted) = 2
    /\ DatedEarlier(Extracted[1])
    /\ DatedThatDay(Extracted[2])
    /\ all_articles[1].url = Extracted[2].url

\* C9: the table of contents has a section for a bucket exactly when the
\* bucket is not empty, Today's News before This Week, each listing its
\* bucket's records in order.
C9_Sections ==
    pc = "done" =>
        LET T == todays_articles_final
            W == weeks_articles_final
            Lists(sec, b) ==
                /\ Len(sec.items) = Len(b)
                /\ \A k \in 1..Len(b) :
                      /\ sec.items[k].title = b[k].title
                      /\ sec.items[k].content = b[k].url
        IN  /\ Len(toc) = (IF T # <<>> THEN 1 ELSE 0) + (IF W # <<>> THEN 1 ELSE 0)
            /\ T # <<>> =>
                  /\ toc[1].section = "Today's News"
                  /\ Lists(toc[1], T)
            /\ W # <<>> =>
                  /\ toc[Len(toc)].section = "This Week"
                  /\ Lists(toc[Len(toc)], W)
            /\ \A i \in 1..Len(toc) : toc[i].items # <<>>
            /\ (T = <<>> /\ Len(W) = 2) =>
                  /\ Len(toc) = 1
                  /\ toc[1].section = "This Week"
                  /\ Len(toc[1].items) = 2

C9_Witness ==
    /\ pc = "done"
    /\ todays_articles_final = <<>>
    /\ Len(weeks_articles_final) = 2
    /\ Len(toc) = 1

\* C10: a failure on one candidate article never ends the run: a run fails
\* only at load or at link discovery.
C10_Isolation == pc = "failed" => err \in {"store", "links"}

TypeOK ==
    /\ clock \in 0..MaxDay
    /\ pc \in {"init"} \cup Running \cup Ended
    /\ file.kind \in {"absent", "ok", "partial"}
====
